---- MODULE Spec2Model ----
(***************************************************************************)
(* A model of go-resolve-host: the command line front end (main.go), the   *)
(* concurrent resolution engine (resolver.go) and the logger (logger.go).  *)
(*                                                                         *)
(* Strings the program inspects or builds (the -dnsserver argument, the    *)
(* rendered address lists) are sequences of one-character strings, so that *)
(* parsing and formatting are computed and can be inspected.  Host names   *)
(* and reverse names are opaque and stay TLA+ strings.                     *)
(* Time is a discrete clock of ticks; Millisecond ticks make a millisecond.*)
(* Between two readings of the clock that main takes around its start-up   *)
(* work (flag parsing, validation) at least one tick passes.               *)
(***************************************************************************)
EXTENDS Integers, Sequences, FiniteSets, TLC

\* ------------------------------------------------------------ bounds
MaxHosts == 2
MaxIps == 2
MaxTimeoutMs == 1
MaxStartup == 1
MaxOverrun == 0

\* ------------------------------------------------- program constants
\* time.Millisecond, scaled: the clock ticks in milliseconds.
Millisecond == 1

IP == "ip"
IPv4 == "ip4"
IPv6 == "ip6"
NetworkStrings == {IP, IPv4, IPv6}

blockedIpStr == <<"0", ".", "0", ".", "0", ".", "0">>

\* ------------------------------------------------------------ strings
Digits == <<"0", "1", "2", "3", "4", "5", "6", "7", "8", "9">>
HexLetters == {"a", "b", "c", "d", "e", "f", "A", "B", "C", "D", "E", "F"}

IsDigit(c) == \E d \in 1..10 : Digits[d] = c

DigitVal(c) == (CHOOSE d \in 1..10 : Digits[d] = c) - 1

IsHex(c) == IsDigit(c) \/ c \in HexLetters

\* strconv.Itoa for a byte value: decimal, no padding.
RECURSIVE Itoa(_)
Itoa(n) == IF n < 10 THEN <<Digits[n + 1]>>
           ELSE Itoa(n \div 10) \o <<Digits[(n % 10) + 1]>>

\* The index of the first c in s at or after position i, or Len(s)+1.
RECURSIVE IndexFrom(_, _, _)
IndexFrom(s, c, i) == IF i > Len(s) THEN Len(s) + 1
                      ELSE IF s[i] = c THEN i
                      ELSE IndexFrom(s, c, i + 1)

\* strings.Split(s, sep) for a one-character separator.
RECURSIVE Split(_, _)
Split(s, c) == LET j == IndexFrom(s, c, 1)
               IN IF j > Len(s) THEN <<s>>
                  ELSE <<SubSeq(s, 1, j - 1)>> \o Split(SubSeq(s, j + 1, Len(s)), c)

\* net.IP.String for a four-byte address: dotted decimal.
IPString(ip) == Itoa(ip[1]) \o <<".">> \o Itoa(ip[2]) \o <<".">>
                \o Itoa(ip[3]) \o <<".">> \o Itoa(ip[4])

\* --------------------------------------------------------- net.ParseIP
NilIP == <<>>

\* One dotted-decimal field: one to three digits, no leading zero, <= 255.
RECURSIVE DecVal(_)
DecVal(f) == IF Len(f) = 0 THEN 0
             ELSE 10 * DecVal(SubSeq(f, 1, Len(f) - 1)) + DigitVal(f[Len(f)])

ValidV4Field(f) == /\ Len(f) >= 1
                   /\ Len(f) <= 3
                   /\ \A i \in 1..Len(f) : IsDigit(f[i])
                   /\ (Len(f) > 1 => f[1] # "0")
                   /\ DecVal(f) <= 255

parseIPv4(s) == LET fs == Split(s, ".")
                IN IF Len(fs) = 4 /\ \A i \in 1..4 : ValidV4Field(fs[i])
                   THEN [i \in 1..4 |-> DecVal(fs[i])]
                   ELSE NilIP

\* One IPv6 group: one to four hexadecimal digits.
ValidV6Group(g) == /\ Len(g) >= 1
                   /\ Len(g) <= 4
                   /\ \A i \in 1..Len(g) : IsHex(g[i])

\* The groups of an IPv6 literal without "::": colon separated, all valid.
V6Groups(s) == IF Len(s) = 0 THEN <<>> ELSE Split(s, ":")

ValidV6Part(s) == \A i \in 1..Len(V6Groups(s)) : ValidV6Group(V6Groups(s)[i])

\* The position of the first "::" in s, or 0.
EllipsisAt(s) == IF \E i \in 1..(Len(s) - 1) : s[i] = ":" /\ s[i + 1] = ":"
                 THEN CHOOSE i \in 1..(Len(s) - 1) :
                        /\ s[i] = ":" /\ s[i + 1] = ":"
                        /\ \A j \in 1..(i - 1) : ~(s[j] = ":" /\ s[j + 1] = ":")
                 ELSE 0

\* An IPv6 literal of hexadecimal groups (no zone, no embedded IPv4): eight
\* groups, or fewer around exactly one "::".  The result is the group list
\* with the ellipsis marked, which is all the callers look at (nil or not).
parseIPv6(s) == LET e == EllipsisAt(s)
                IN IF e = 0
                   THEN IF Len(V6Groups(s)) = 8 /\ ValidV6Part(s)
                        THEN V6Groups(s) ELSE NilIP
                   ELSE LET l == SubSeq(s, 1, e - 1)
                            r == SubSeq(s, e + 2, Len(s))
                        IN IF /\ ValidV6Part(l) /\ ValidV6Part(r)
                              /\ Len(V6Groups(l)) + Len(V6Groups(r)) <= 7
                           THEN V6Groups(l) \o <<"::">> \o V6Groups(r)
                           ELSE NilIP

\* net.ParseIP: the first '.' or ':' decides the family; neither: nil.
RECURSIVE FirstSep(_, _)
FirstSep(s, i) == IF i > Len(s) THEN "none"
                  ELSE IF s[i] = "." THEN "v4"
                  ELSE IF s[i] = ":" THEN "v6"
                  ELSE FirstSep(s, i + 1)

ParseIP(s) == CASE FirstSep(s, 1) = "v4" -> parseIPv4(s)
                [] FirstSep(s, 1) = "v6" -> parseIPv6(s)
                [] OTHER -> NilIP

\* net.IP.Equal for four-byte addresses.
IPEqual(a, b) == a = b

\* ---------------------------------------------------------- addrString
\* An addrString loop without the test for the last index.
RECURSIVE addrStringEverySep(_, _, _)
addrStringEverySep(ips, i, addrStr) ==
    IF i > Len(ips) THEN addrStr
    ELSE addrStringEverySep(ips, i + 1, addrStr \o IPString(ips[i]) \o <<",", " ">>)

\* The loop of addrString: i runs over the indices, the last one appends no
\* separator.
RECURSIVE addrStringFrom(_, _, _)
addrStringFrom(ips, i, addrStr) ==
    IF i > Len(ips) THEN addrStr
    ELSE IF i = Len(ips)
         THEN addrStringFrom(ips, i + 1, addrStr \o IPString(ips[i]))
         ELSE addrStringFrom(ips, i + 1, addrStr \o IPString(ips[i]) \o <<",", " ">>)

addrString(ips) == addrStringFrom(ips, 1, <<>>)

\* strings.Join(names, ", ") over opaque names: the names in order with the
\* separator between neighbours.
RECURSIVE JoinNames(_)
JoinNames(names) == IF Len(names) = 0 THEN <<>>
                    ELSE IF Len(names) = 1 THEN <<names[1]>>
                    ELSE <<names[1], ", ">> \o JoinNames(Tail(names))

\* ------------------------------------------------------------- inputs
HostPool == <<"a.example", "b.example", "c.example", "d.example">>

\* The positional arguments: the first n pool names, n = 0 .. MaxHosts.
HostLists == {SubSeq(HostPool, 1, n) : n \in 0..MaxHosts}

\* Values of -dnsserver: empty, valid IPv4, valid IPv6, and invalid ones.
DnsServerArgs == { <<>>,
                   <<"8", ".", "8", ".", "8", ".", "8">>,
                   <<":", ":", "1">>,
                   <<"n", "o", "t", "-", "a", "n", "-", "i", "p">>,
                   <<"2", "5", "6", ".", "1", ".", "1", ".", "1">>,
                   <<"1", ".", "2", ".", "3">>,
                   <<"0", "1", ".", "2", ".", "3", ".", "4">>,
                   <<"1", ":", ":", "2", ":", ":", "3">> }

TimeoutArgs == (-1)..MaxTimeoutMs

IpTypeArgs == NetworkStrings \cup {"ipx"}

\* Addresses a forward lookup may return; 0.0.0.0 is the blocked marker.
IpPool == {<<0, 0, 0, 0>>, <<192, 168, 0, 21>>, <<10, 0, 0, 7>>}

\* The addresses of the pool other than the marker, in a fixed order.
IpOrder == <<<<192, 168, 0, 21>>, <<10, 0, 0, 7>>>>

IsMarker(ip) == ip = <<0, 0, 0, 0>>

IsNoMarker(ip) == ~IsMarker(ip)

\* The address lists of the forward lookups of one batch hold MaxIps
\* addresses in all; the addresses of one list are distinct, and (the
\* addresses other than the marker being interchangeable) those of a list
\* are the first ones of IpOrder, in that order.
IpLists == {l \in UNION {[1..n -> IpPool] : n \in 0..MaxIps} :
              /\ \A i, j \in 1..Len(l) : l[i] = l[j] => i = j
              /\ SelectSeq(l, IsNoMarker) =
                     SubSeq(IpOrder, 1, Len(SelectSeq(l, IsNoMarker)))}

\* Name lists a successful reverse lookup may return.
NameLists == {<<"ptr.example", "alias.example">>}

\* The runs explored.  A batch of fewer than MaxHosts names is run with
\* every combination of the options; a batch of MaxHosts names with the
\* default options and either loop semantics and every timeout, and with
\* each other network for the longest timeout.  (The resolver and the
\* network are only handed on to the lookups.)
Explored(e, p, d, t, i, h) ==
    \/ Len(h) < MaxHosts
    \/ d = <<>> /\ i = IPv4
    \/ d = <<>> /\ p /\ t = MaxTimeoutMs /\ e = "cli"

\* ---------------------------------------------------------------- state
VARIABLES
    entry,          \* "cli": main runs; "library": ResolveHostnames is called directly
    perIteration,   \* the build gives the range loop a fresh variable per iteration
    dnsServerIp,    \* -dnsserver
    timeoutArg,     \* -timeout, milliseconds
    iptype,         \* -iptype
    hostnames,      \* flag.Args()
    pc,             \* the position of main (or of the library caller)
    exitCode,       \* -1 while running, then the process exit code
    globalLogger,   \* the logger pointer: nil, or set and by whom
    r,              \* the *Resolver main built
    now,            \* the clock
    totalStart,     \* main's totalStart
    deadline,       \* the context's deadline, -1 before it exists
    ctxDone,        \* the context's Done channel is closed
    hostname,       \* the range loop's variable (the one shared by all
                    \* closures when the build does not refresh it)
    next,           \* the range loop's next index
    wg,             \* the WaitGroup's counter
    tasks,          \* the goroutines, by list position
    totalDuration,  \* main's totalDuration, -1 before it is taken
    mainLog         \* what main itself logged, in order

vars == <<entry, perIteration, dnsServerIp, timeoutArg, iptype, hostnames, pc,
          exitCode, globalLogger, r, now, totalStart, deadline, ctxDone,
          hostname, next, wg, tasks, totalDuration, mainLog>>

inputs == <<entry, perIteration, dnsServerIp, timeoutArg, iptype, hostnames>>

\* logger.go 15, 17-25: the global logger pointer; by is 0 for main and the
\* list position for a goroutine.
NilLogger == [set |-> FALSE, by |-> 0]

InitializeLogger(by) == [set |-> TRUE, by |-> by]

NoResolver == [kind |-> "none", server |-> <<>>]

NoTask == [st |-> "unlaunched", host |-> "", start |-> 0, ips |-> <<>>,
           k |-> 0, tr |-> <<>>]

\* One event of a goroutine's trace: a lookup call, a lookup return or a
\* logger call.  arg is always a sequence.
Event(op, what, host, arg) == [op |-> op, what |-> what, host |-> host, arg |-> arg]

N == Len(hostnames)

\* ------------------------------------------------------------ resolver
\* NewResolver / newResolver: the Go resolver, strict errors, dialling UDP
\* to dnsServerAddr:53.
NewResolver(dnsServerAddr) ==
    [kind |-> "custom", server |-> dnsServerAddr \o <<":", "5", "3">>]

DefaultResolver == [kind |-> "default", server |-> <<>>]

\* A getDnsResolver that hands any non-empty string to newResolver.
getDnsResolverUnchecked(addr) ==
    IF Len(addr) # 0
    THEN [r |-> NewResolver(addr), err |-> ""]
    ELSE [r |-> DefaultResolver, err |-> ""]

\* getDnsResolver: the resolver and the error ("" for nil).
getDnsResolver(addr) ==
    IF Len(addr) # 0
    THEN IF ~(ParseIP(addr) # NilIP)
         THEN [r |-> NoResolver, err |-> "Invalid ip address"]
         ELSE [r |-> NewResolver(addr), err |-> ""]
    ELSE [r |-> DefaultResolver, err |-> ""]

\* ------------------------------------------------------------- prefixStr
\* A prefixStr that counts a total equal to the timeout as exceeding it.
prefixStrAtLeast(total, timeout) ==
    IF total >= timeout THEN "Deadline exceeded" ELSE "Total duration"

prefixStr(total, timeout) ==
    IF total > timeout THEN "Deadline exceeded" ELSE "Total duration"

\* time.Duration.Milliseconds: whole milliseconds, truncated.
Milliseconds(d) == d \div Millisecond

\* ------------------------------------------------------------------ Init
Init ==
    /\ entry \in {"cli", "library"}
    /\ perIteration \in BOOLEAN
    /\ hostnames \in HostLists
    /\ timeoutArg \in TimeoutArgs
    /\ IF entry = "cli"
       THEN /\ dnsServerIp \in DnsServerArgs
            /\ iptype \in IpTypeArgs
            /\ pc = "start"
            /\ r = NoResolver
            /\ deadline = -1
            /\ ctxDone = FALSE
       ELSE \* a caller with a resolver, a network and a context of its own
            /\ dnsServerIp = <<>>
            /\ iptype \in NetworkStrings
            /\ timeoutArg >= 0
            /\ pc = "spawn"
            /\ r = DefaultResolver
            /\ deadline = timeoutArg * Millisecond
            /\ ctxDone = (timeoutArg = 0)
    /\ Explored(entry, perIteration, dnsServerIp, timeoutArg, iptype, hostnames)
    /\ exitCode = -1
    /\ globalLogger = NilLogger
    /\ now = 0
    /\ totalStart = 0
    /\ hostname = ""
    /\ next = 1
    /\ wg = 0
    /\ tasks = [i \in 1..Len(hostnames) |-> NoTask]
    /\ totalDuration = -1
    /\ mainLog = <<>>

\* ----------------------------------------------------------- the logger
\* LogInfo / LogError start with maybeInitializeLogger.
maybeInitializeLogger(l) == IF l = NilLogger THEN InitializeLogger(0) ELSE l

\* maybeInitializeLogger in goroutine t.  globalLogger is read and written
\* without synchronisation: a logger set by main before the go statements
\* or by t itself is seen as it is; one set by another goroutine is seen as
\* set, or is missed (the nil test of both passed) and t sets its own.
LoggerSeenBy(t) ==
    IF globalLogger = NilLogger THEN {InitializeLogger(t)}
    ELSE IF globalLogger.by \in {0, t} THEN {globalLogger}
    ELSE {globalLogger, InitializeLogger(t)}

\* Goroutine t is about to use a logger that another goroutine has set
\* with no happens-before edge to t.
RacyLogger(t) == globalLogger # NilLogger /\ globalLogger.by \notin {0, t}

LogLine(level, what, arg) == [level |-> level, what |-> what, arg |-> arg]

\* ------------------------------------------------------------ the clock
\* The clock advances by itself; it is capped MaxOverrun ticks after the
\* deadline (and, before a deadline exists, MaxStartup ticks after the
\* start of main).
Tick ==
    /\ pc \notin {"start", "return", "done", "exited", "returned", "panicked"}
    /\ IF deadline < 0 THEN now - totalStart < MaxStartup
                        ELSE now < deadline + MaxOverrun
    /\ now' = now + 1
    /\ UNCHANGED <<inputs, pc, exitCode, globalLogger, r, totalStart, deadline,
                   ctxDone, hostname, next, wg, tasks, totalDuration, mainLog>>

\* The context's timer: it closes Done at the deadline or later.
TimerFire ==
    /\ deadline >= 0
    /\ ~ctxDone
    /\ now >= deadline
    /\ ctxDone' = TRUE
    /\ UNCHANGED <<inputs, pc, exitCode, globalLogger, r, now, totalStart,
                   deadline, hostname, next, wg, tasks, totalDuration, mainLog>>

\* ------------------------------------------------------------------ main
\* log.Fatalf(helpMsg): the usage text on the standard logger, then exit 1.
Fatalf(log) == Append(log, LogLine("fatal", "helpMsg", <<>>))

FatalExitCode == 1

\* main.go 129-130: InitializeLogger(); totalStart := time.Now()
MainStart ==
    /\ pc = "start"
    /\ globalLogger' = InitializeLogger(0)
    /\ totalStart' = now
    /\ pc' = "checkTimeout"
    /\ UNCHANGED <<inputs, exitCode, r, now, deadline, ctxDone, hostname, next,
                   wg, tasks, totalDuration, mainLog>>

\* A timeout check that logs the error and carries on.
MainCheckTimeoutNoExit ==
    /\ pc = "checkTimeout"
    /\ mainLog' = IF timeoutArg < 0
                  THEN Append(mainLog, LogLine("error", "Invalid value provided for timeout",
                                               <<timeoutArg>>))
                  ELSE mainLog
    /\ pc' = "checkHostnames"
    /\ UNCHANGED <<inputs, exitCode, globalLogger, r, now, totalStart, deadline,
                   ctxDone, hostname, next, wg, tasks, totalDuration>>

\* main.go 139-142
MainCheckTimeout ==
    /\ pc = "checkTimeout"
    /\ IF timeoutArg < 0
       THEN /\ mainLog' = Fatalf(Append(mainLog,
                              LogLine("error", "Invalid value provided for timeout",
                                      <<timeoutArg>>)))
            /\ exitCode' = FatalExitCode
            /\ pc' = "exited"
       ELSE /\ pc' = "checkHostnames"
            /\ UNCHANGED <<mainLog, exitCode>>
    /\ UNCHANGED <<inputs, globalLogger, r, now, totalStart, deadline, ctxDone,
                   hostname, next, wg, tasks, totalDuration>>

\* main.go 145-148
MainCheckHostnames ==
    /\ pc = "checkHostnames"
    /\ IF Len(hostnames) = 0
       THEN /\ mainLog' = Fatalf(mainLog)
            /\ exitCode' = FatalExitCode
            /\ pc' = "exited"
       ELSE /\ pc' = "checkIpType"
            /\ UNCHANGED <<mainLog, exitCode>>
    /\ UNCHANGED <<inputs, globalLogger, r, now, totalStart, deadline, ctxDone,
                   hostname, next, wg, tasks, totalDuration>>

\* The -iptype check of the later main: a value other than ip, ip4, ip6 is
\* a fatal usage error.
ValidIpType(t) == t \in NetworkStrings

MainCheckIpType ==
    /\ pc = "checkIpType"
    /\ IF ~ValidIpType(iptype)
       THEN /\ mainLog' = Fatalf(mainLog)
            /\ exitCode' = FatalExitCode
            /\ pc' = "exited"
       ELSE /\ pc' = "getDnsResolver"
            /\ UNCHANGED <<mainLog, exitCode>>
    /\ UNCHANGED <<inputs, globalLogger, r, now, totalStart, deadline, ctxDone,
                   hostname, next, wg, tasks, totalDuration>>

\* main.go 150-154
MainGetDnsResolver ==
    /\ pc = "getDnsResolver"
    /\ LET res == getDnsResolver(dnsServerIp)
       IN IF res.err # ""
          THEN /\ mainLog' = Append(mainLog, LogLine("error", res.err, dnsServerIp))
               /\ exitCode' = 1
               /\ pc' = "exited"
               /\ r' = res.r
          ELSE /\ r' = res.r
               /\ pc' = "withTimeout"
               /\ UNCHANGED <<mainLog, exitCode>>
    /\ UNCHANGED <<inputs, globalLogger, now, totalStart, deadline, ctxDone,
                   hostname, next, wg, tasks, totalDuration>>

\* main.go 156-158: a deadline that is not in the future is done at once.
MainWithTimeout ==
    /\ pc = "withTimeout"
    /\ now > totalStart
    /\ deadline' = now + timeoutArg * Millisecond
    /\ ctxDone' = (timeoutArg * Millisecond <= 0)
    /\ pc' = "spawn"
    /\ UNCHANGED <<inputs, exitCode, globalLogger, r, now, totalStart, hostname,
                   next, wg, tasks, totalDuration, mainLog>>

\* ------------------------------------------------------ ResolveHostnames
\* resolver.go 64-69: one iteration of the range loop: the loop variable
\* takes the next host name, wg.Add(1), and the goroutine is started.
Spawn ==
    /\ pc = "spawn"
    /\ next <= N
    /\ hostname' = hostnames[next]
    /\ wg' = wg + 1
    /\ tasks' = [tasks EXCEPT ![next].st = "ready"]
    /\ next' = next + 1
    /\ UNCHANGED <<inputs, pc, exitCode, globalLogger, r, now, totalStart,
                   deadline, ctxDone, totalDuration, mainLog>>

\* A join that gives up as soon as one goroutine has reported a failure.
wgWaitFailFast(counter) ==
    \/ counter = 0
    \/ \E t \in 1..N : \E i \in 1..Len(tasks[t].tr) : tasks[t].tr[i].op = "LogError"

\* sync.WaitGroup.Wait returns when the counter is zero.
wgWaitReturns(counter) == counter = 0

\* resolver.go 71: wg.Wait(), then the return to the caller.
Wait ==
    /\ pc = "spawn"
    /\ next > N
    /\ wgWaitReturns(wg)
    /\ pc' = IF entry = "cli" THEN "summary" ELSE "returned"
    /\ UNCHANGED <<inputs, exitCode, globalLogger, r, now, totalStart, deadline,
                   ctxDone, hostname, next, wg, tasks, totalDuration, mainLog>>

\* The aggregate line of main.go 165.
SummaryLine(prefix, count, ms, addrs) ==
    LogLine("info", prefix, <<count, ms, addrs>>)

\* A main that takes the total from the creation of the context instead of
\* from its own start.
MainSummarySinceContext ==
    /\ pc = "summary"
    /\ totalDuration' = now - (deadline - timeoutArg * Millisecond)
    /\ LET timeout == timeoutArg * Millisecond
       IN mainLog' = Append(mainLog,
                        SummaryLine(prefixStr(totalDuration', timeout),
                                    Len(hostnames), Milliseconds(totalDuration'),
                                    JoinNames(hostnames)))
    /\ globalLogger' = maybeInitializeLogger(globalLogger)
    /\ pc' = "return"
    /\ UNCHANGED <<inputs, exitCode, r, now, totalStart, deadline, ctxDone,
                   hostname, next, wg, tasks>>

\* main.go 162-165: the total duration is taken and the aggregate line is
\* logged.
MainSummary ==
    /\ pc = "summary"
    /\ totalDuration' = now - totalStart
    /\ LET timeout == timeoutArg * Millisecond
       IN mainLog' = Append(mainLog,
                        SummaryLine(prefixStr(totalDuration', timeout),
                                    Len(hostnames), Milliseconds(totalDuration'),
                                    JoinNames(hostnames)))
    /\ globalLogger' = maybeInitializeLogger(globalLogger)
    /\ pc' = "return"
    /\ UNCHANGED <<inputs, exitCode, r, now, totalStart, deadline, ctxDone,
                   hostname, next, wg, tasks>>

\* main.go 158, 166: main returns: the deferred cancel runs and the
\* process exits with code 0.
MainReturn ==
    /\ pc = "return"
    /\ ctxDone' = TRUE
    /\ exitCode' = 0
    /\ pc' = "done"
    /\ UNCHANGED <<inputs, globalLogger, r, now, totalStart, deadline, hostname,
                   next, wg, tasks, totalDuration, mainLog>>

\* ------------------------------------------------------- ResolveHostname
\* The host name the closure of position t passes to ResolveHostname: its
\* own copy when the loop variable is per iteration, otherwise whatever the
\* shared loop variable holds when the goroutine gets to read it.
Alive == pc # "panicked"

closureHostname(t) == IF perIteration THEN hostnames[t] ELSE hostname

Tr(t, evs) == [tasks EXCEPT ![t].tr = tasks[t].tr \o evs]

\* A ResolveHostname that looks up "ip4" whatever network it is given.
TaskStartIp4Only(t) ==
    /\ Alive
    /\ tasks[t].st = "ready"
    /\ LET h == closureHostname(t)
       IN tasks' = [tasks EXCEPT ![t].st = "fwd",
                                 ![t].host = h,
                                 ![t].start = now,
                                 ![t].tr = tasks[t].tr \o
                                           <<Event("LookupIP", IPv4, h, <<>>)>>]
    /\ UNCHANGED <<inputs, pc, exitCode, globalLogger, r, now, totalStart,
                   deadline, ctxDone, hostname, next, wg, totalDuration, mainLog>>

\* resolver.go 67, 42-44: the goroutine starts, takes the start time and
\* issues the forward lookup.
TaskStart(t) ==
    /\ Alive
    /\ tasks[t].st = "ready"
    /\ LET h == closureHostname(t)
       IN tasks' = [tasks EXCEPT ![t].st = "fwd",
                                 ![t].host = h,
                                 ![t].start = now,
                                 ![t].tr = tasks[t].tr \o
                                           <<Event("LookupIP", iptype, h, <<>>)>>]
    /\ UNCHANGED <<inputs, pc, exitCode, globalLogger, r, now, totalStart,
                   deadline, ctxDone, hostname, next, wg, totalDuration, mainLog>>

\* How a lookup can fail: with a *net.DNSError, with another error, or,
\* once the context is done, with the context's error (a *net.DNSError too).
Failures == {"DNSError", "error", "cancelled"}

\* Lookups that are not handed the context: the deadline never ends them.
MayFailWithoutContext(f) == f # "cancelled"

MayFail(f) == f = "cancelled" => ctxDone

\* The type assertion err.(*net.DNSError).
IsDNSError(f) == f \in {"DNSError", "cancelled"}

\* A ResolveHostname whose error branch lacks the return: after the error
\* line it goes on with the nil address list.
ForwardFailedNoReturn(t, f) ==
    /\ Alive
    /\ tasks[t].st = "fwd"
    /\ MayFail(f)
    /\ tasks' = [tasks EXCEPT
                   ![t].st = "rev",
                   ![t].k = 1,
                   ![t].tr = tasks[t].tr \o
                       << Event("return", f, tasks[t].host, <<>>),
                          Event("LogError", "Failed to resolve", tasks[t].host,
                                IF IsDNSError(f) THEN <<"DNSError">> ELSE <<"error">>),
                          Event("LogInfo", "IP addresses", tasks[t].host, <<>>) >>]
    /\ globalLogger' \in LoggerSeenBy(t)
    /\ UNCHANGED <<inputs, pc, exitCode, r, now, totalStart, deadline, ctxDone,
                   hostname, next, wg, totalDuration, mainLog>>

\* resolver.go 45-52: the forward lookup failed; one LogError, return.
ForwardFailed(t, f) ==
    /\ Alive
    /\ tasks[t].st = "fwd"
    /\ MayFail(f)
    /\ tasks' = [tasks EXCEPT
                   ![t].st = "exit",
                   ![t].tr = tasks[t].tr \o
                       << Event("return", f, tasks[t].host, <<>>),
                          Event("LogError", "Failed to resolve", tasks[t].host,
                                IF IsDNSError(f) THEN <<"DNSError">> ELSE <<"error">>) >>]
    /\ globalLogger' \in LoggerSeenBy(t)
    /\ UNCHANGED <<inputs, pc, exitCode, r, now, totalStart, deadline, ctxDone,
                   hostname, next, wg, totalDuration, mainLog>>

\* The addresses the forward lookups of the batch have returned so far.
RECURSIVE AddressesUpTo(_)
AddressesUpTo(i) == IF i = 0 THEN 0 ELSE Len(tasks[i].ips) + AddressesUpTo(i - 1)

\* resolver.go 54-56: the forward lookup returned ips; they are reported
\* and resolveReverse starts on them.
ForwardResolved(t, ips) ==
    /\ Alive
    /\ tasks[t].st = "fwd"
    /\ AddressesUpTo(N) + Len(ips) <= MaxIps
    /\ tasks' = [tasks EXCEPT
                   ![t].st = "rev",
                   ![t].ips = ips,
                   ![t].k = 1,
                   ![t].tr = tasks[t].tr \o
                       << Event("return", "ok", tasks[t].host, <<>>),
                          Event("LogInfo", "IP addresses", tasks[t].host,
                                addrString(ips)) >>]
    /\ globalLogger' \in LoggerSeenBy(t)
    /\ UNCHANGED <<inputs, pc, exitCode, r, now, totalStart, deadline, ctxDone,
                   hostname, next, wg, totalDuration, mainLog>>

\* --------------------------------------------------------- resolveReverse
\* A resolveReverse without the blocked-address test.
isBlockedNever(ip) == FALSE

\* net.ParseIP(blockedIpStr), the same value on every iteration: the four
\* bytes of "0.0.0.0" (BlockedIpParsed below ties the two together).
blockedIp == <<0, 0, 0, 0>>

BlockedIpParsed == ParseIP(blockedIpStr) = blockedIp

\* resolver.go 80: ip.Equal(net.ParseIP(blockedIpStr))
isBlocked(ip) == IPEqual(ip, blockedIp)

\* A resolveReverse that logs every blocked address and goes on, whatever
\* the length of the list.
ReverseNextAlwaysLogs(t) ==
    /\ Alive
    /\ tasks[t].st = "rev"
    /\ tasks[t].k <= Len(tasks[t].ips)
    /\ LET ip == tasks[t].ips[tasks[t].k]
       IN IF isBlocked(ip)
          THEN /\ tasks' = [tasks EXCEPT
                              ![t].k = tasks[t].k + 1,
                              ![t].tr = tasks[t].tr \o
                                  <<Event("LogInfo", "Ignoring", tasks[t].host, ip)>>]
               /\ globalLogger' \in LoggerSeenBy(t)
          ELSE /\ tasks' = [tasks EXCEPT
                              ![t].st = "revwait",
                              ![t].tr = tasks[t].tr \o
                                  <<Event("LookupAddr", IPString(ip), tasks[t].host, ip)>>]
               /\ UNCHANGED globalLogger
    /\ UNCHANGED <<inputs, pc, exitCode, r, now, totalStart, deadline, ctxDone,
                   hostname, next, wg, totalDuration, mainLog>>

\* A resolveReverse that walks the address list from its end.
ReverseNextBackwards(t) ==
    /\ Alive
    /\ tasks[t].st = "rev"
    /\ tasks[t].k <= Len(tasks[t].ips)
    /\ LET ip == tasks[t].ips[Len(tasks[t].ips) - tasks[t].k + 1]
       IN IF isBlocked(ip)
          THEN IF Len(tasks[t].ips) = 1
               THEN /\ tasks' = [tasks EXCEPT
                                   ![t].k = Len(tasks[t].ips) + 1,
                                   ![t].tr = tasks[t].tr \o
                                       <<Event("LogInfo", "Ignoring", tasks[t].host, ip)>>]
                    /\ globalLogger' \in LoggerSeenBy(t)
               ELSE /\ tasks' = [tasks EXCEPT ![t].k = tasks[t].k + 1]
                    /\ UNCHANGED globalLogger
          ELSE /\ tasks' = [tasks EXCEPT
                              ![t].st = "revwait",
                              ![t].tr = tasks[t].tr \o
                                  <<Event("LookupAddr", IPString(ip), tasks[t].host, ip)>>]
               /\ UNCHANGED globalLogger
    /\ UNCHANGED <<inputs, pc, exitCode, r, now, totalStart, deadline, ctxDone,
                   hostname, next, wg, totalDuration, mainLog>>

\* resolver.go 78-91: the head of one iteration: a blocked address ends
\* resolveReverse with an info line when it is the only address and is
\* passed over otherwise; any other address gets its reverse lookup.
ReverseNext(t) ==
    /\ Alive
    /\ tasks[t].st = "rev"
    /\ tasks[t].k <= Len(tasks[t].ips)
    /\ LET ip == tasks[t].ips[tasks[t].k]
       IN IF isBlocked(ip)
          THEN IF Len(tasks[t].ips) = 1
               THEN /\ tasks' = [tasks EXCEPT
                                   ![t].k = Len(tasks[t].ips) + 1,
                                   ![t].tr = tasks[t].tr \o
                                       <<Event("LogInfo", "Ignoring", tasks[t].host, ip)>>]
                    /\ globalLogger' \in LoggerSeenBy(t)
               ELSE /\ tasks' = [tasks EXCEPT ![t].k = tasks[t].k + 1]
                    /\ UNCHANGED globalLogger
          ELSE /\ tasks' = [tasks EXCEPT
                              ![t].st = "revwait",
                              ![t].tr = tasks[t].tr \o
                                  <<Event("LookupAddr", IPString(ip), tasks[t].host, ip)>>]
               /\ UNCHANGED globalLogger
    /\ UNCHANGED <<inputs, pc, exitCode, r, now, totalStart, deadline, ctxDone,
                   hostname, next, wg, totalDuration, mainLog>>

\* A resolveReverse that gives up on the rest of the list after a failed
\* reverse lookup.
ReverseFailedAborts(t, f) ==
    /\ Alive
    /\ tasks[t].st = "revwait"
    /\ MayFail(f)
    /\ LET ip == tasks[t].ips[tasks[t].k]
       IN tasks' = [tasks EXCEPT
                      ![t].st = "rev",
                      ![t].k = Len(tasks[t].ips) + 1,
                      ![t].tr = tasks[t].tr \o
                          <<Event("return", f, tasks[t].host, ip)>> \o
                          (IF IsDNSError(f)
                           THEN <<Event("LogError", "Error performing reverse lookup",
                                        tasks[t].host, ip)>>
                           ELSE <<>>)]
    /\ IF IsDNSError(f) THEN globalLogger' \in LoggerSeenBy(t)
       ELSE globalLogger' = globalLogger
    /\ UNCHANGED <<inputs, pc, exitCode, r, now, totalStart, deadline, ctxDone,
                   hostname, next, wg, totalDuration, mainLog>>

\* resolver.go 92-95: the reverse lookup failed; an error that is a
\* *net.DNSError is logged, any other is not; on to the next address.
ReverseFailed(t, f) ==
    /\ Alive
    /\ tasks[t].st = "revwait"
    /\ MayFail(f)
    /\ LET ip == tasks[t].ips[tasks[t].k]
       IN tasks' = [tasks EXCEPT
                      ![t].st = "rev",
                      ![t].k = tasks[t].k + 1,
                      ![t].tr = tasks[t].tr \o
                          <<Event("return", f, tasks[t].host, ip)>> \o
                          (IF IsDNSError(f)
                           THEN <<Event("LogError", "Error performing reverse lookup",
                                        tasks[t].host, ip)>>
                           ELSE <<>>)]
    /\ IF IsDNSError(f) THEN globalLogger' \in LoggerSeenBy(t)
       ELSE globalLogger' = globalLogger
    /\ UNCHANGED <<inputs, pc, exitCode, r, now, totalStart, deadline, ctxDone,
                   hostname, next, wg, totalDuration, mainLog>>

\* resolver.go 96-98: the reverse lookup returned names; they are reported.
ReverseResolved(t, names) ==
    /\ Alive
    /\ tasks[t].st = "revwait"
    /\ LET ip == tasks[t].ips[tasks[t].k]
       IN tasks' = [tasks EXCEPT
                      ![t].st = "rev",
                      ![t].k = tasks[t].k + 1,
                      ![t].tr = tasks[t].tr \o
                          << Event("return", "ok", tasks[t].host, ip),
                             Event("LogInfo", "Reverse", tasks[t].host,
                                   JoinNames(names)) >>]
    /\ globalLogger' \in LoggerSeenBy(t)
    /\ UNCHANGED <<inputs, pc, exitCode, r, now, totalStart, deadline, ctxDone,
                   hostname, next, wg, totalDuration, mainLog>>

\* A ResolveHostname that reports no duration for an empty address list.
ReportDurationUnlessEmpty(t) ==
    /\ Alive
    /\ tasks[t].st = "rev"
    /\ tasks[t].k > Len(tasks[t].ips)
    /\ tasks' = [tasks EXCEPT
                   ![t].st = "exit",
                   ![t].tr = tasks[t].tr \o
                       (IF tasks[t].ips = <<>> THEN <<>>
                        ELSE <<Event("LogInfo", "Duration", tasks[t].host,
                                     <<Milliseconds(now - tasks[t].start)>>)>>)]
    /\ globalLogger' \in LoggerSeenBy(t)
    /\ UNCHANGED <<inputs, pc, exitCode, r, now, totalStart, deadline, ctxDone,
                   hostname, next, wg, totalDuration, mainLog>>

\* resolver.go 58-59: resolveReverse has returned; the duration is reported.
ReportDuration(t) ==
    /\ Alive
    /\ tasks[t].st = "rev"
    /\ tasks[t].k > Len(tasks[t].ips)
    /\ tasks' = [tasks EXCEPT
                   ![t].st = "exit",
                   ![t].tr = tasks[t].tr \o
                       <<Event("LogInfo", "Duration", tasks[t].host,
                               <<Milliseconds(now - tasks[t].start)>>)>>]
    /\ globalLogger' \in LoggerSeenBy(t)
    /\ UNCHANGED <<inputs, pc, exitCode, r, now, totalStart, deadline, ctxDone,
                   hostname, next, wg, totalDuration, mainLog>>

\* The positions at which the next thing goroutine t does is a logger call.
AtLogCall(t) ==
    \/ tasks[t].st \in {"fwd", "revwait"}
    \/ /\ tasks[t].st = "rev"
       /\ \/ tasks[t].k > Len(tasks[t].ips)
          \/ Len(tasks[t].ips) = 1 /\ isBlocked(tasks[t].ips[1])

\* logger.go 41, 47: globalLogger.infoLogger / errorLogger is read through
\* a pointer published by another goroutine without synchronisation; the
\* field can still be seen as nil, and the call on it panics (exit code 2).
LogPanics(t) ==
    /\ Alive
    /\ AtLogCall(t)
    /\ RacyLogger(t)
    /\ pc' = "panicked"
    /\ exitCode' = 2
    /\ UNCHANGED <<inputs, globalLogger, r, now, totalStart, deadline, ctxDone,
                   hostname, next, wg, tasks, totalDuration, mainLog>>

\* resolver.go 68: wg.Done(), and the goroutine ends.
TaskDone(t) ==
    /\ Alive
    /\ tasks[t].st = "exit"
    /\ wg' = wg - 1
    /\ tasks' = [tasks EXCEPT ![t].st = "done"]
    /\ UNCHANGED <<inputs, pc, exitCode, globalLogger, r, now, totalStart,
                   deadline, ctxDone, hostname, next, totalDuration, mainLog>>

\* ------------------------------------------------------------------ Next
\* Any step of the goroutine of position t.
TaskStep(t) ==
    \/ TaskStart(t)
    \/ \E f \in Failures : ForwardFailed(t, f)
    \/ \E ips \in IpLists : ForwardResolved(t, ips)
    \/ ReverseNext(t)
    \/ \E f \in Failures : ReverseFailed(t, f)
    \/ \E names \in NameLists : ReverseResolved(t, names)
    \/ ReportDuration(t)
    \/ LogPanics(t)
    \/ TaskDone(t)

Next ==
    \/ Tick
    \/ TimerFire
    \/ MainStart
    \/ MainCheckTimeout
    \/ MainCheckHostnames
    \/ MainCheckIpType
    \/ MainGetDnsResolver
    \/ MainWithTimeout
    \/ Spawn
    \/ Wait
    \/ MainSummary
    \/ MainReturn
    \/ \E t \in 1..N : TaskStart(t)
    \/ \E t \in 1..N, f \in Failures : ForwardFailed(t, f)
    \/ \E t \in 1..N, ips \in IpLists : ForwardResolved(t, ips)
    \/ \E t \in 1..N : ReverseNext(t)
    \/ \E t \in 1..N, f \in Failures : ReverseFailed(t, f)
    \/ \E t \in 1..N, names \in NameLists : ReverseResolved(t, names)
    \/ \E t \in 1..N : ReportDuration(t)
    \/ \E t \in 1..N : LogPanics(t)
    \/ \E t \in 1..N : TaskDone(t)

Spec == Init /\ [][Next]_vars

\* ------------------------------------------------------------- fairness
\* What the runtime guarantees: the clock advances and the context's timer
\* fires; main and every goroutine that can run, runs; a lookup in flight
\* returns once the context is done.  (That the network ever answers is
\* not assumed.)
MainStep ==
    \/ MainStart
    \/ MainCheckTimeout
    \/ MainCheckHostnames
    \/ MainCheckIpType
    \/ MainGetDnsResolver
    \/ MainWithTimeout
    \/ Spawn
    \/ Wait
    \/ MainSummary
    \/ MainReturn

TaskRuns(t) ==
    /\ t \in DOMAIN tasks
    /\ (TaskStart(t) \/ ReverseNext(t) \/ ReportDuration(t) \/ TaskDone(t))

LookupCancelled(t) ==
    /\ t \in DOMAIN tasks
    /\ (ForwardFailed(t, "cancelled") \/ ReverseFailed(t, "cancelled"))

Fairness ==
    /\ WF_vars(Tick)
    /\ WF_vars(TimerFire)
    /\ WF_vars(MainStep)
    /\ \A t \in 1..MaxHosts : WF_vars(TaskRuns(t))
    /\ \A t \in 1..MaxHosts : WF_vars(LookupCancelled(t))

FairSpec == Init /\ [][Next]_vars /\ Fairness

\* ------------------------------------------------------------ properties
\* What the properties read off the state.
Tasks == 1..N

\* The batch run (ResolveHostnames) has returned to its caller.
Returned == pc \in {"summary", "return", "done", "returned"}

\* The positions in a trace of the events that satisfy Test.
Where(tr, Test(_)) == {i \in 1..Len(tr) : Test(tr[i])}

IsForwardLookup(e) == e.op = "LookupIP"
IsReverseLookup(e) == e.op = "LookupAddr"
IsFailureReport(e) == e.op = "LogError" /\ e.what = "Failed to resolve"
IsDurationReport(e) == e.op = "LogInfo" /\ e.what = "Duration"
IsCompletion(e) == IsFailureReport(e) \/ IsDurationReport(e)
IsIgnored(e) == e.op = "LogInfo" /\ e.what = "Ignoring"
IsFailedReturn(e) == e.op = "return" /\ e.what # "ok"
IsCancelledReturn(e) == e.op = "return" /\ e.what = "cancelled"

\* The completions reported for host name h, over all goroutines.
RECURSIVE CompletionsFor(_, _)
CompletionsFor(h, t) ==
    IF t = 0 THEN 0
    ELSE LET ForH(e) == IsCompletion(e) /\ e.host = h
         IN Cardinality(Where(tasks[t].tr, ForH)) + CompletionsFor(h, t - 1)

\* The summary lines main has logged.
IsSummary(l) == l.level = "info"
Summaries == Where(mainLog, IsSummary)
Label == mainLog[Len(mainLog)].what

BlockedIp == <<0, 0, 0, 0>>

\* The positions of the address list that resolveReverse has dealt with.
Handled(t) == IF tasks[t].st \in {"rev", "exit", "done"} /\ tasks[t].ips # <<>>
              THEN 1..(IF tasks[t].k > Len(tasks[t].ips) THEN Len(tasks[t].ips)
                       ELSE tasks[t].k - 1)
              ELSE {}

HandledBlocked(t) == {k \in Handled(t) : tasks[t].ips[k] = BlockedIp}

NoLookupOfBlocked(t) ==
    \A i \in 1..Len(tasks[t].tr) :
        IsReverseLookup(tasks[t].tr[i]) => tasks[t].tr[i].arg # BlockedIp

IsReverseError(e) == e.op = "LogError" /\ e.what = "Error performing reverse lookup"

NoErrorForBlocked(t) ==
    \A i \in 1..Len(tasks[t].tr) :
        IsReverseError(tasks[t].tr[i]) => tasks[t].tr[i].arg # BlockedIp

C2_BlockedAlwaysReported ==
    \A t \in Tasks :
        /\ NoLookupOfBlocked(t)
        /\ NoErrorForBlocked(t)
        /\ Cardinality(Where(tasks[t].tr, IsIgnored)) = Cardinality(HandledBlocked(t))

\* C2 amended: such an address gets no reverse lookup and no error line at
\* any position of a list of any length; the info "ignored" line is written
\* exactly when it is the only address of the list.
C2_BlockedSkipped ==
    \A t \in Tasks :
        /\ NoLookupOfBlocked(t)
        /\ NoErrorForBlocked(t)
        /\ Cardinality(Where(tasks[t].tr, IsIgnored)) =
               (IF tasks[t].ips = <<BlockedIp>> /\ Handled(t) # {} THEN 1 ELSE 0)

\* A goroutine has gone through a two-address list that holds 0.0.0.0 and
\* another address.
C2_Witness ==
    \E t \in Tasks :
        /\ Len(tasks[t].ips) = 2
        /\ tasks[t].st = "done"
        /\ HandledBlocked(t) # {}
        /\ Cardinality(Where(tasks[t].tr, IsReverseLookup)) = 1

\* Some lookup of the batch was cut short by the deadline.
SomeLookupCancelled ==
    \E t \in Tasks : Where(tasks[t].tr, IsCancelledReturn) # {}

\* C3 as stated: the summary says "Deadline exceeded" when the deadline cut
\* a lookup short, and "Total duration" when every lookup finished before
\* the deadline fired.  (At pc = "return" the context is done only if its
\* timer has fired.)
C3_LabelFollowsDeadline ==
    pc = "return" =>
        /\ SomeLookupCancelled => Label = "Deadline exceeded"
        /\ ~ctxDone => Label = "Total duration"

\* C3 amended: the summary says "Deadline exceeded" exactly when the total
\* time, taken from the start of main to after the join, is greater than
\* the timeout, and "Total duration" otherwise; so it says "Deadline
\* exceeded" whenever the deadline cut a lookup short, and it can say so
\* too when every lookup finished before the deadline fired.
C3_LabelFollowsTotal ==
    pc \in {"return", "done"} =>
        /\ Cardinality(Summaries) = 1
        /\ totalDuration = now - totalStart
        /\ (totalDuration > timeoutArg * Millisecond) <=> (Label = "Deadline exceeded")
        /\ (totalDuration <= timeoutArg * Millisecond) <=> (Label = "Total duration")
        /\ SomeLookupCancelled => Label = "Deadline exceeded"

\* The summary says "Deadline exceeded" although the deadline has not fired
\* and no lookup was cancelled.
C3_Witness ==
    /\ pc = "return"
    /\ ~ctxDone
    /\ ~SomeLookupCancelled
    /\ Label = "Deadline exceeded"
    /\ N = 2

\* C4: a failed forward lookup, a failed reverse lookup or a cancellation in
\* the goroutine of A never stops the goroutine of B: the step in which A's
\* lookup fails leaves B's goroutine, the shared context, the loop that
\* launches the goroutines and the join as they were, and when the batch
\* has returned B has issued its one forward lookup and reported its
\* outcome.
HasFailed(a) == Where(tasks[a].tr, IsFailedReturn) # {}

FailsIn(a) ==
    /\ a \in DOMAIN tasks
    /\ Cardinality(Where(tasks'[a].tr, IsFailedReturn)) >
           Cardinality(Where(tasks[a].tr, IsFailedReturn))

SiblingsUntouched(a) ==
    /\ \A b \in DOMAIN tasks \ {a} : tasks'[b] = tasks[b]
    /\ UNCHANGED <<ctxDone, deadline, pc, next, wg, exitCode>>

SiblingsReport ==
    \A a \in Tasks : \A b \in Tasks \ {a} :
        HasFailed(a) /\ Returned =>
            /\ Cardinality(Where(tasks[b].tr, IsForwardLookup)) = 1
            /\ Cardinality(Where(tasks[b].tr, IsCompletion)) = 1

C4_FailureDoesNotAbortSiblings ==
    /\ []SiblingsReport
    /\ [][\A a \in 1..MaxHosts : FailsIn(a) => SiblingsUntouched(a)]_vars

\* The batch has returned; A's forward lookup failed, and B resolved its
\* name, had a reverse lookup answered and reported its duration.
C4_Witness ==
    /\ Returned
    /\ N = 2
    /\ Where(tasks[1].tr, IsFailureReport) # {}
    /\ Where(tasks[2].tr, IsDurationReport) # {}
    /\ Where(tasks[2].tr, IsReverseLookup) # {}

\* C5: once the command line has been validated the batch completes, and
\* main logs exactly one summary line, after the last report of every
\* goroutine, with the number of input host names and the names in input
\* order; also when every host name fails or is cancelled.
ValidationPassed == entry = "cli" /\ pc = "withTimeout"

SummaryArg == mainLog[Len(mainLog)].arg

SummaryOnce ==
    /\ Cardinality(Summaries) <= 1
    /\ entry = "cli" /\ Returned /\ pc # "summary" =>
         /\ Cardinality(Summaries) = 1
         /\ \A t \in Tasks : tasks[t].st = "done"
         /\ SummaryArg[1] = Len(hostnames)
         /\ Len(SummaryArg[3]) = 2 * Len(hostnames) - 1
         /\ \A i \in Tasks : SummaryArg[3][2 * i - 1] = hostnames[i]

C5_SummaryAlwaysComes ==
    /\ [](ValidationPassed => <>(pc = "done" /\ Cardinality(Summaries) = 1))
    /\ []SummaryOnce
    /\ [][Summaries # {} => tasks' = tasks]_vars

\* The run has ended with its summary although the forward lookup of every
\* host name failed, one of them cancelled by the deadline.
C5_Witness ==
    /\ pc = "done"
    /\ N = 2
    /\ Cardinality(Summaries) = 1
    /\ \A t \in Tasks : Where(tasks[t].tr, IsFailureReport) # {}
    /\ SomeLookupCancelled

\* C6: getDnsResolver fails with "Invalid ip address" and returns no
\* resolver when the -dnsserver string is non-empty and not an IP literal;
\* for the empty string it returns the default resolver, and for an IP
\* literal a custom resolver that dials that server on port 53.
ValidLiterals == { <<"8", ".", "8", ".", "8", ".", "8">>, <<":", ":", "1">> }

PastResolver == pc \in {"withTimeout", "spawn", "summary", "return", "done"}

ResolverFailed ==
    /\ pc = "exited"
    /\ mainLog # <<>>
    /\ mainLog[Len(mainLog)].what = "Invalid ip address"

C6_ResolverFollowsAddress ==
    entry = "cli" =>
        /\ PastResolver =>
              \/ dnsServerIp = <<>> /\ r = DefaultResolver
              \/ /\ dnsServerIp \in ValidLiterals
                 /\ r.kind = "custom"
                 /\ r.server = dnsServerIp \o <<":", "5", "3">>
        /\ ResolverFailed =>
              /\ dnsServerIp # <<>>
              /\ dnsServerIp \notin ValidLiterals
              /\ r = NoResolver
              /\ mainLog[Len(mainLog)].arg = dnsServerIp
        /\ pc = "exited" /\ ~ResolverFailed =>
              timeoutArg < 0 \/ N = 0 \/ iptype \notin NetworkStrings

\* main has given up on a dotted address with a leading zero in a field.
C6_Witness ==
    /\ ResolverFailed
    /\ dnsServerIp = <<"0", "1", ".", "2", ".", "3", ".", "4">>
    /\ r = NoResolver

\* C7: addrString gives the string forms of the addresses in input order,
\* joined by ", ", with no separator before the first or after the last:
\* "" for no address, "A" for one, "A, B" for two.
RECURSIVE Joined(_)
Joined(ips) == IF Len(ips) = 0 THEN <<>>
               ELSE IF Len(ips) = 1 THEN IPString(ips[1])
               ELSE IPString(ips[1]) \o <<",", " ">> \o Joined(Tail(ips))

IsAddressReport(e) == e.op = "LogInfo" /\ e.what = "IP addresses"

AddressReport(t) ==
    tasks[t].tr[CHOOSE i \in Where(tasks[t].tr, IsAddressReport) : TRUE].arg

Text_A == <<"1", "9", "2", ".", "1", "6", "8", ".", "0", ".", "2", "1">>
Text_Z == <<"0", ".", "0", ".", "0", ".", "0">>

IsForwardAnswer(e) == e.op = "return" /\ e.what = "ok" /\ e.arg = <<>>

C7_AddrStringJoins ==
    \A t \in Tasks :
        Where(tasks[t].tr, IsForwardAnswer) # {} =>
            /\ Cardinality(Where(tasks[t].tr, IsAddressReport)) = 1
            /\ AddressReport(t) = Joined(tasks[t].ips)
            /\ tasks[t].ips = <<>> => AddressReport(t) = <<>>
            /\ tasks[t].ips = <<<<192, 168, 0, 21>>>> => AddressReport(t) = Text_A
            /\ tasks[t].ips = <<<<0, 0, 0, 0>>, <<192, 168, 0, 21>>>> =>
                  AddressReport(t) = Text_Z \o <<",", " ">> \o Text_A
            /\ AddressReport(t) # <<>> =>
                  /\ AddressReport(t)[1] \notin {",", " "}
                  /\ AddressReport(t)[Len(AddressReport(t))] \notin {",", " "}

\* A forward lookup has returned two addresses and they were reported.
C7_Witness ==
    \E t \in Tasks :
        /\ tasks[t].ips = <<<<0, 0, 0, 0>>, <<192, 168, 0, 21>>>>
        /\ tasks[t].st = "done"
        /\ AddressReport(t) = Text_Z \o <<",", " ">> \o Text_A

\* C8: ResolveHostnames called by a library caller with an empty list does
\* not return as if the batch had succeeded.
C8_EmptyListFails ==
    ~(entry = "library" /\ N = 0 /\ pc = "returned")

\* C9: the process exits with code 1 on an invalid -dnsserver address, a
\* negative timeout, an invalid -iptype value or no host names, and with
\* code 0 on every other run, also when host names failed to resolve.
BadInput ==
    \/ timeoutArg < 0
    \/ N = 0
    \/ iptype \notin {"ip", "ip4", "ip6"}
    \/ dnsServerIp # <<>> /\ dnsServerIp \notin ValidLiterals

C9_ExitCodes ==
    entry = "cli" =>
        /\ exitCode \in {-1, 0, 1}
        /\ exitCode = 1 <=> pc = "exited"
        /\ exitCode = 0 <=> pc = "done"
        /\ pc = "exited" => BadInput
        /\ BadInput => pc \in {"start", "checkTimeout", "checkHostnames",
                               "checkIpType", "getDnsResolver", "exited"}

\* The process has exited with code 0 after a run in which the forward
\* lookup of every host name failed.
C9_Witness ==
    /\ entry = "cli"
    /\ pc = "done"
    /\ exitCode = 0
    /\ N = 2
    /\ \A t \in Tasks : Where(tasks[t].tr, IsFailureReport) # {}

IsForwardFailure(e) == IsFailedReturn(e) /\ e.arg = <<>>

ForwardFailedIn(t) == Where(tasks[t].tr, IsForwardFailure) # {}

IsErrorLine(e) == e.op = "LogError"

C11_ForwardFailureReportsOnce ==
    \A t \in Tasks :
        ForwardFailedIn(t) =>
            /\ tasks[t].st \in {"exit", "done"}
            /\ Len(tasks[t].tr) = 3
            /\ IsForwardLookup(tasks[t].tr[1])
            /\ IsForwardFailure(tasks[t].tr[2])
            /\ IsFailureReport(tasks[t].tr[3])
            /\ tasks[t].tr[3].host = tasks[t].tr[1].host
            /\ Cardinality(Where(tasks[t].tr, IsErrorLine)) = 1
            /\ Where(tasks[t].tr, IsReverseLookup) = {}

\* One goroutine has returned after a cancelled forward lookup, another
\* after a forward lookup that failed with a DNS error.
C11_Witness ==
    /\ N = 2
    /\ \A t \in Tasks : tasks[t].st = "done" /\ ForwardFailedIn(t)
    /\ tasks[1].tr[2].what = "cancelled"
    /\ tasks[2].tr[2].what = "DNSError"

\* C12 as stated: every invocation of ResolveHostname that has returned has
\* reported the duration for its host name, once, as the last thing it did
\* (after the forward lookup and after all of resolveReverse), also when
\* the address list was empty.
HasReturned(t) == tasks[t].st \in {"exit", "done"}

DurationLast(t) ==
    /\ Cardinality(Where(tasks[t].tr, IsDurationReport)) = 1
    /\ IsDurationReport(tasks[t].tr[Len(tasks[t].tr)])
    /\ tasks[t].tr[Len(tasks[t].tr)].host = tasks[t].host
    /\ tasks[t].tr[Len(tasks[t].tr)].arg[1] \in 0..Milliseconds(now - tasks[t].start)

C12_DurationAlwaysReported ==
    \A t \in Tasks : HasReturned(t) => DurationLast(t)

\* C12 amended: every invocation whose forward lookup succeeds reports the
\* duration once, as the last thing it does, also when the address list is
\* empty; an invocation whose forward lookup fails reports its error and
\* no duration; and no duration is reported before resolveReverse is over.
C12_DurationAfterSuccess ==
    \A t \in Tasks :
        /\ HasReturned(t) /\ ~ForwardFailedIn(t) => DurationLast(t)
        /\ HasReturned(t) /\ ForwardFailedIn(t) =>
              Where(tasks[t].tr, IsDurationReport) = {}
        /\ ~HasReturned(t) => Where(tasks[t].tr, IsDurationReport) = {}

\* A forward lookup has returned the empty list and the goroutine has
\* reported its duration and ended.
C12_Witness ==
    \E t \in Tasks :
        /\ tasks[t].st = "done"
        /\ Where(tasks[t].tr, IsForwardAnswer) # {}
        /\ tasks[t].ips = <<>>
        /\ DurationLast(t)

\* C13: in resolveReverse every address other than 0.0.0.0 gets exactly one
\* reverse lookup, whatever became of the lookups for the addresses before
\* it: when resolveReverse is over, the lookups issued are those of the
\* addresses other than 0.0.0.0, one each, and never more at any time.
IsNotBlocked(ip) == ip # BlockedIp

NonBlocked(ips) == SelectSeq(ips, IsNotBlocked)

ReverseLookups(t) == SelectSeq(tasks[t].tr, IsReverseLookup)

IsReverseFailure(e) == IsFailedReturn(e) /\ e.arg # <<>>

C13_EveryAddressLookedUpOnce ==
    \A t \in Tasks :
        /\ Len(ReverseLookups(t)) <= Len(NonBlocked(tasks[t].ips))
        /\ HasReturned(t) /\ ~ForwardFailedIn(t) =>
              /\ Len(ReverseLookups(t)) = Len(NonBlocked(tasks[t].ips))
              /\ \A i \in 1..Len(ReverseLookups(t)) :
                    ReverseLookups(t)[i].arg = NonBlocked(tasks[t].ips)[i]

\* The reverse lookup of the first of two addresses failed and the second
\* address still got its lookup, which was answered.
C13_Witness ==
    \E t \in Tasks :
        /\ tasks[t].st = "done"
        /\ Len(NonBlocked(tasks[t].ips)) = 2
        /\ Len(ReverseLookups(t)) = 2
        /\ Cardinality(Where(tasks[t].tr, IsReverseFailure)) = 1
        /\ IsReverseFailure(tasks[t].tr[5])

\* C14: every reverse lookup that has returned has produced exactly one
\* report, right after its return: the info line with the joined names
\* when it succeeded, an error line when it failed, whatever the kind of
\* the failure.
IsReverseReturn(e) == e.op = "return" /\ e.arg # <<>>

IsReverseNames(e) == e.op = "LogInfo" /\ e.what = "Reverse"

IsReverseReport(e) == IsReverseNames(e) \/ IsReverseError(e)

C14_EveryReverseLookupReported ==
    \A t \in Tasks :
        /\ Cardinality(Where(tasks[t].tr, IsReverseReport)) =
               Cardinality(Where(tasks[t].tr, IsReverseReturn))
        /\ \A i \in Where(tasks[t].tr, IsReverseReturn) :
              /\ i < Len(tasks[t].tr)
              /\ IF tasks[t].tr[i].what = "ok"
                 THEN IsReverseNames(tasks[t].tr[i + 1])
                 ELSE /\ IsReverseError(tasks[t].tr[i + 1])
                      /\ tasks[t].tr[i + 1].arg = tasks[t].tr[i].arg

\* C15: within one goroutine the events are in order: the line with the
\* forward result comes before every reverse lookup; the reverse lookups
\* are issued in the order of the address list, each followed by its own
\* return and then its report before the next one is issued; and the
\* duration line is the last event.
C15_EventsInOrder ==
    \A t \in Tasks :
        LET tr == tasks[t].tr
            look == Where(tr, IsReverseLookup)
        IN /\ look # {} => Where(tr, IsAddressReport) # {}
           /\ \A i \in Where(tr, IsAddressReport) :
                 i = 3 /\ \A j \in look : i < j
           /\ \A i \in look :
                 i < Len(tr) => IsReverseReturn(tr[i + 1]) /\ tr[i + 1].arg = tr[i].arg
           /\ \A i, j \in look : i < j => i + 1 < j
           /\ \A m \in Where(tr, IsReverseReport) :
                 /\ IsReverseReturn(tr[m - 1])
                 /\ IsReverseLookup(tr[m - 2])
           /\ \A i \in 1..Len(ReverseLookups(t)) :
                 ReverseLookups(t)[i].arg = NonBlocked(tasks[t].ips)[i]
           /\ \A i \in Where(tr, IsDurationReport) : i = Len(tr)

\* A goroutine has gone through two addresses other than 0.0.0.0, the
\* first lookup failing with a DNS error and the second answered, and has
\* reported its duration.
C15_Witness ==
    \E t \in Tasks :
        /\ tasks[t].st = "done"
        /\ tasks[t].ips = IpOrder
        /\ Len(tasks[t].tr) = 10
        /\ IsReverseError(tasks[t].tr[6])
        /\ IsReverseNames(tasks[t].tr[9])
        /\ IsDurationReport(tasks[t].tr[10])

\* C16: in a run of main, a lookup returns the cancellation error only once
\* the shared deadline has elapsed; once it has elapsed every goroutine
\* still unwinds by itself (a cancelled lookup is followed by the
\* goroutine's own error line, a goroutine past its last lookup still
\* reports its duration) and the join completes: the batch returns with
\* every goroutine done.
CancelledReturns(t) == Cardinality(Where(tasks[t].tr, IsCancelledReturn))

CancelledIn(t) ==
    /\ t \in DOMAIN tasks
    /\ Cardinality(Where(tasks'[t].tr, IsCancelledReturn)) > CancelledReturns(t)

Unwound(t) ==
    /\ tasks[t].st = "done"
    /\ \A i \in Where(tasks[t].tr, IsCancelledReturn) :
          /\ i < Len(tasks[t].tr)
          /\ IsErrorLine(tasks[t].tr[i + 1])
    /\ ~ForwardFailedIn(t) => DurationLast(t)

DeadlineElapsed == entry = "cli" /\ pc = "spawn" /\ ctxDone

JoinCompleted == Returned /\ \A t \in Tasks : Unwound(t)

C16_DeadlineUnwindsEveryTask ==
    /\ [][\A t \in 1..MaxHosts : CancelledIn(t) => ctxDone]_vars
    /\ [](entry = "cli" /\ Returned => JoinCompleted)
    /\ DeadlineElapsed ~> JoinCompleted

\* main has ended after a deadline of one millisecond that cut short the
\* reverse lookup of one goroutine, which still reported its duration,
\* while the other goroutine had its lookups answered.
C16_Witness ==
    /\ entry = "cli"
    /\ pc = "done"
    /\ N = 2
    /\ timeoutArg = 1
    /\ \E t \in Tasks :
          /\ \E i \in Where(tasks[t].tr, IsCancelledReturn) : IsReverseReturn(tasks[t].tr[i])
          /\ Unwound(t)
          /\ DurationLast(t)
    /\ \E t \in Tasks :
          /\ Where(tasks[t].tr, IsFailedReturn) = {}
          /\ Where(tasks[t].tr, IsReverseNames) # {}
          /\ DurationLast(t)

\* C17: 0.0.0.0 is handled in two ways.  When it is the only address of
\* the list, resolveReverse writes one info "ignored" line, for the host
\* name, and issues no reverse lookup.  When it stands in a list of two or
\* more addresses it is passed over with no line at all, and every other
\* address of the list still gets its reverse lookup.
ReverseOver(t) == HasReturned(t) /\ ~ForwardFailedIn(t)

IgnoredLines(t) == SelectSeq(tasks[t].tr, IsIgnored)

C17_SentinelAsymmetry ==
    \A t \in Tasks :
        /\ tasks[t].ips # <<BlockedIp>> => IgnoredLines(t) = <<>>
        /\ tasks[t].ips = <<BlockedIp>> =>
              /\ ReverseLookups(t) = <<>>
              /\ Len(IgnoredLines(t)) <= 1
              /\ ReverseOver(t) =>
                    /\ Len(IgnoredLines(t)) = 1
                    /\ IgnoredLines(t)[1].host = tasks[t].host
                    /\ IgnoredLines(t)[1].arg = BlockedIp
        /\ Len(tasks[t].ips) >= 2 /\ ReverseOver(t) =>
              /\ Len(ReverseLookups(t)) =
                     Cardinality({k \in 1..Len(tasks[t].ips) : tasks[t].ips[k] # BlockedIp})
              /\ \A k \in 1..Len(tasks[t].ips) :
                    tasks[t].ips[k] # BlockedIp <=>
                        \E i \in 1..Len(ReverseLookups(t)) :
                            ReverseLookups(t)[i].arg = tasks[t].ips[k]

\* resolveReverse has gone through a list that ends in 0.0.0.0: the first
\* address was looked up and nothing was written for 0.0.0.0.
C17_Witness ==
    \E t \in Tasks :
        /\ tasks[t].ips = <<IpOrder[1], BlockedIp>>
        /\ ReverseOver(t)
        /\ Len(ReverseLookups(t)) = 1
        /\ IgnoredLines(t) = <<>>

\* C18: LogInfo and LogError are safe when several goroutines call them at
\* once, also when the logger was never initialised: the lazy
\* initialisation sets the logger once and it stays the one logger, and no
\* call gets hold of a logger that is not fully initialised.
C18_LoggerSafeUnderConcurrency ==
    /\ [](pc # "panicked")
    /\ [][globalLogger # NilLogger => globalLogger' = globalLogger]_vars

\* C19: the network of a batch (ip, ip4 or ip6) is chosen once and never
\* changes, and every forward lookup of the batch is issued with it.
C19_OneNetworkForTheBatch ==
    /\ [](\A t \in Tasks : \A i \in Where(tasks[t].tr, IsForwardLookup) :
             /\ tasks[t].tr[i].what = iptype
             /\ tasks[t].tr[i].what \in NetworkStrings)
    /\ [][iptype' = iptype]_vars

\* Both goroutines of a batch run with ip6 have issued their forward
\* lookup, and the run has ended.
C19_Witness ==
    /\ pc = "done"
    /\ N = 2
    /\ iptype = IPv6
    /\ \A t \in Tasks :
          /\ Cardinality(Where(tasks[t].tr, IsForwardLookup)) = 1
          /\ tasks[t].tr[1].what = "ip6"

\* C20: in every run in which the deadline cancelled a forward or reverse
\* lookup, the summary line says "Deadline exceeded" and not "Total
\* duration": the total runs from the start of main, which is before the
\* context is created, to after the join, and so is strictly greater than
\* the timeout.
C20_CancelledMeansExceeded ==
    pc \in {"return", "done"} /\ SomeLookupCancelled =>
        /\ Label = "Deadline exceeded"
        /\ Label # "Total duration"
        /\ totalStart < deadline - timeoutArg * Millisecond
        /\ totalDuration >= deadline - totalStart
        /\ totalDuration > timeoutArg * Millisecond

\* main has ended a run with a deadline of one millisecond that cancelled
\* the forward lookups of both host names.
C20_Witness ==
    /\ pc = "done"
    /\ N = 2
    /\ timeoutArg = 1
    /\ \A t \in Tasks : tasks[t].tr[2].what = "cancelled"
    /\ Label = "Deadline exceeded"

====
